---- MODULE Spec2Model ----
(***************************************************************************)
(* Monte Carlo revenue forecast engine (src/api/simulation.py).            *)
(*                                                                         *)
(* Money is fixed-point: one unit is 0.001 USD (a mill), so a cent is CENT *)
(* units and a dollar DOLLAR units.  A win probability or a uniform draw   *)
(* is a numerator over PScale (PScale stands for 1.0).  The quotients the  *)
(* code forms (mean, percentiles, bin edges, count / n) are kept as exact  *)
(* rationals [num, den]; round(x, d) is modelled by what it does, rounding *)
(* to the nearest multiple of 10^-d, a tie going to the even neighbour.    *)
(* An Optional value is <<>> (None) or <<v>>.                              *)
(***************************************************************************)
EXTENDS Integers, Sequences, FiniteSets

VARIABLES
    entry,              \* the function the caller invoked
    pc,                 \* position inside that invocation
    raised,             \* the exception that ended it, "" when none
    opportunities,      \* run_full_simulation / filter: the request's list
    num_simulations,    \* trial count argument
    time_horizon_days,  \* Optional[int]
    revenue_targets,    \* Optional[List[float]] of run_full_simulation
    filtered_opps,      \* the list run_monte_carlo and the statistics read
    excluded_count,
    targets,            \* the list compute_target_analysis reads
    random_draws,       \* Optional draw matrix [trial][event]
    won_matrix,         \* Optional boolean matrix [trial][event]
    outcomes,           \* Optional outcome array
    summary_stats,      \* Optional SummaryStatistics
    target_analysis,    \* Optional list of TargetAnalysis
    num_buckets,        \* bucket count argument of compute_histogram
    histogram,          \* Optional list of HistogramBucket
    response,           \* Optional SimulationResponse
    np_random,          \* numpy's process-global generator: values produced so far
    settings,           \* the configuration singleton of config.py
    payload,            \* Optional keyword arguments of a model constructor
    constructed,        \* Optional model object the constructor returned
    status_code         \* HTTP status the simulate endpoint answered, 0 when none

vars == <<entry, pc, raised, opportunities, num_simulations, time_horizon_days,
          revenue_targets, filtered_opps, excluded_count, targets, random_draws,
          won_matrix, outcomes, summary_stats, target_analysis, num_buckets,
          histogram, response, np_random, settings, payload, constructed,
          status_code>>

-----------------------------------------------------------------------------
(* Bounds of the model.                                                    *)

MaxOpps == 2
MaxSims == 2
MaxArray == 3
MaxTargets == 3

(* Fixed-point scales.                                                     *)

CENT == 10
DOLLAR == 1000
PScale == 2

None == <<>>
Some(x) == <<x>>
IsSome(o) == o # <<>>
The(o) == o[1]

SeqsUpTo(S, n) == UNION {[1..k -> S] : k \in 0..n}

RECURSIVE SumSeq(_)
SumSeq(s) == IF s = <<>> THEN 0 ELSE s[1] + SumSeq(Tail(s))

(* round-half-even of num/den to an integer, den > 0 *)
RoundHalfEven(num, den) ==
    LET q == (2 * num + den) \div (2 * den)
        tie == (2 * num + den) % (2 * den) = 0
    IN IF tie /\ q % 2 # 0 THEN q - 1 ELSE q

(* round(x, 2) of an amount x = num/den units: the nearest cent *)
Round2(num, den) == CENT * RoundHalfEven(num, CENT * den)

(* round(x, 2) of a product of floats: where the exact value lies halfway  *)
(* between two cents the double that holds it decides, so either cent can  *)
(* come out                                                                *)
Round2Either(num, den) ==
    IF (2 * num) % (2 * CENT * den) = CENT * den
    THEN {CENT * (num \div (CENT * den)), CENT * (num \div (CENT * den)) + CENT}
    ELSE {Round2(num, den)}

-----------------------------------------------------------------------------
(* Opportunity (models.py): amount > 0 rounded to cents, probability in    *)
(* [0, 1], close_date as a day offset from today.                          *)

Amounts == {2 * CENT, 4 * CENT}
Probabilities == 0..PScale
Draws == 0..(PScale - 1)

Opportunity(a, p, d) == [amount |-> Round2(a, 1), probability |-> p, close_date |-> d]

Today == 0

(* lists of validated opportunities that all close today *)
OppsToday == {Opportunity(a, p, Today) : a \in Amounts, p \in Probabilities}
OppListsToday == SeqsUpTo(OppsToday, MaxOpps)

-----------------------------------------------------------------------------
(* What outlives a call: the configuration singleton and numpy's global    *)
(* random generator.                                                       *)

(* settings.default_revenue_targets: 1M, 5M, 10M, 25M, 50M USD, scaled to  *)
(* the amounts of this model (a few cents)                                 *)
default_revenue_targets == <<1 * CENT, 5 * CENT, 10 * CENT, 25 * CENT, 50 * CENT>>

(* settings = Settings(), the fields the engine reads *)
Settings == [default_revenue_targets |-> default_revenue_targets]

(* a process that has imported config and numpy and drawn nothing yet *)
ProcessStart ==
    /\ np_random = 0
    /\ settings = Settings

(* no model constructor and no endpoint is involved in the call *)
CoreOnly ==
    /\ payload = None
    /\ constructed = None
    /\ status_code = 0

-----------------------------------------------------------------------------
(* run_monte_carlo *)

amounts_of(opps) == [e \in 1..Len(opps) |-> opps[e].amount]
probabilities_of(opps) == [e \in 1..Len(opps) |-> opps[e].probability]

(* np.ones(num_simulations): one dollar in every trial *)
Ones(n) == [t \in 1..n |-> DOLLAR]

(* np.zeros(num_simulations) *)
Zeros(n) == [t \in 1..n |-> 0]

(* the values np.random.uniform(0, 1, size=(n, k)) can return *)
DrawMatrices(n, k) == [1..n -> [1..k -> Draws]]

(* mutant: random_draws <= probabilities *)
WonMatrixLessEq(draws, probabilities) ==
    [t \in 1..Len(draws) |->
        [e \in 1..Len(probabilities) |-> draws[t][e] <= probabilities[e]]]

(* mutant: the comparison turned round, random_draws > probabilities *)
WonMatrixGreater(draws, probabilities) ==
    [t \in 1..Len(draws) |->
        [e \in 1..Len(probabilities) |-> draws[t][e] > probabilities[e]]]

(* random_draws < probabilities, probabilities broadcast across rows *)
WonMatrix(draws, probabilities) ==
    [t \in 1..Len(draws) |->
        [e \in 1..Len(probabilities) |-> draws[t][e] < probabilities[e]]]

(* mutant: .sum(axis=0), one total per event instead of one per trial *)
RevenuePerRunAxis0(won, amounts) ==
    [e \in 1..Len(amounts) |->
        SumSeq([t \in 1..Len(won) |-> IF won[t][e] THEN amounts[e] ELSE 0])]

(* mutant: .sum() without an axis, the grand total in every trial *)
RevenuePerRunNoAxis(won, amounts) ==
    [t \in 1..Len(won) |->
        SumSeq([u \in 1..Len(won) |->
            SumSeq([e \in 1..Len(amounts) |-> IF won[u][e] THEN amounts[e] ELSE 0])])]

(* (won_matrix * amounts).sum(axis=1) *)
RevenuePerRun(won, amounts) ==
    [t \in 1..Len(won) |->
        SumSeq([e \in 1..Len(amounts) |-> IF won[t][e] THEN amounts[e] ELSE 0])]

(* a run_monte_carlo that draws from a generator of its own *)
run_monte_carlo_own_generator(opps, n, next) ==
    /\ \/ /\ opps = <<>>
          /\ random_draws' = None
          /\ won_matrix' = None
          /\ outcomes' = Some(Zeros(n))
       \/ /\ opps # <<>>
          /\ \E d \in DrawMatrices(n, Len(opps)) :
                LET won == WonMatrix(d, probabilities_of(opps))
                IN /\ random_draws' = Some(d)
                   /\ won_matrix' = Some(won)
                   /\ outcomes' = Some(RevenuePerRun(won, amounts_of(opps)))
    /\ np_random' = np_random
    /\ pc' = next
    /\ raised' = raised

(* np.random.uniform takes n * k values from the global generator.  The    *)
(* n-by-k arrays may not fit in memory: the allocation of the draws fails  *)
(* before any value is taken, that of won_matrix or of the products after. *)
run_monte_carlo(opps, n, next) ==
    \/ /\ opps = <<>>
       /\ random_draws' = None
       /\ won_matrix' = None
       /\ outcomes' = Some(Zeros(n))
       /\ np_random' = np_random
       /\ pc' = next
       /\ raised' = raised
    \/ /\ opps # <<>>
       /\ \E d \in DrawMatrices(n, Len(opps)) :
             LET won == WonMatrix(d, probabilities_of(opps))
             IN /\ random_draws' = Some(d)
                /\ won_matrix' = Some(won)
                /\ outcomes' = Some(RevenuePerRun(won, amounts_of(opps)))
       /\ np_random' = np_random + n * Len(opps)
       /\ pc' = next
       /\ raised' = raised
    \/ /\ opps # <<>>
       /\ n > 0
       /\ random_draws' = None
       /\ won_matrix' = None
       /\ outcomes' = None
       /\ np_random' \in {np_random, np_random + n * Len(opps)}
       /\ pc' = "raised"
       /\ raised' = "MemoryError"

-----------------------------------------------------------------------------
(* A caller invokes run_monte_carlo directly, as the unit tests do.        *)

InitMonteCarlo ==
    /\ entry = "run_monte_carlo"
    /\ pc = "call"
    /\ raised = ""
    /\ opportunities = <<>>
    /\ num_simulations \in 0..MaxSims
    /\ time_horizon_days = None
    /\ revenue_targets = None
    /\ filtered_opps \in OppListsToday
    /\ excluded_count = 0
    /\ targets = <<>>
    /\ random_draws = None
    /\ won_matrix = None
    /\ outcomes = None
    /\ summary_stats = None
    /\ target_analysis = None
    /\ num_buckets = 0
    /\ histogram = None
    /\ response = None
    /\ ProcessStart
    /\ CoreOnly

CallRunMonteCarlo ==
    /\ entry = "run_monte_carlo"
    /\ pc = "call"
    /\ run_monte_carlo(filtered_opps, num_simulations, "returned")
    /\ UNCHANGED <<entry, settings, payload, constructed, status_code,
                   opportunities, num_simulations, time_horizon_days,
                   revenue_targets, filtered_opps, excluded_count, targets,
                   summary_stats, target_analysis, num_buckets, histogram, response>>

NextMonteCarlo == CallRunMonteCarlo

SpecMonteCarlo == InitMonteCarlo /\ [][NextMonteCarlo]_vars

-----------------------------------------------------------------------------
(* Outcome arrays a caller can pass to the statistics functions directly.  *)

OutcomeValues == {0, CENT, 3 * CENT}
OutcomeArrays == SeqsUpTo(OutcomeValues, MaxArray)

Rat(n, d) == [num |-> n, den |-> d]
Leq(x, y) == x.num * y.den <= y.num * x.den
Lt(x, y) == x.num * y.den < y.num * x.den

RECURSIVE Insert(_, _)
Insert(x, s) ==
    IF s = <<>> THEN <<x>>
    ELSE IF x <= s[1] THEN <<x>> \o s
    ELSE <<s[1]>> \o Insert(x, Tail(s))

(* sorted(s), ascending *)
RECURSIVE Sorted(_)
Sorted(s) == IF s = <<>> THEN <<>> ELSE Insert(s[1], Sorted(Tail(s)))

RECURSIVE MinSeq(_)
MinSeq(s) ==
    IF Len(s) = 1 THEN s[1]
    ELSE LET m == MinSeq(Tail(s)) IN IF s[1] < m THEN s[1] ELSE m

RECURSIVE MaxSeq(_)
MaxSeq(s) ==
    IF Len(s) = 1 THEN s[1]
    ELSE LET m == MaxSeq(Tail(s)) IN IF s[1] > m THEN s[1] ELSE m

-----------------------------------------------------------------------------
(* compute_summary_statistics *)

(* np.sum where np.mean is meant *)
MeanUndivided(a) == Rat(SumSeq(a), 1)

(* np.mean *)
Mean(a) == Rat(SumSeq(a), Len(a))

(* np.median: the middle element, or the mean of the two middle ones *)
Median(a) ==
    LET s == Sorted(a)
        n == Len(a)
    IN IF n % 2 = 1 THEN Rat(s[(n + 1) \div 2], 1)
       ELSE Rat(s[n \div 2] + s[n \div 2 + 1], 2)

(* np.std squared (population variance): mean(|x - mean|^2) *)
Variance(a) ==
    LET n == Len(a)
        sq == SumSeq([i \in 1..n |-> a[i] * a[i]])
    IN Rat(n * sq - SumSeq(a) * SumSeq(a), n * n)

(* mutant: the interpolation weight taken from the wrong neighbour *)
PercentileWeightFlipped(a, q) ==
    LET s == Sorted(a)
        n == Len(a)
        lo == ((n - 1) * q) \div 100
        frac == ((n - 1) * q) % 100
        hi == IF lo + 1 < n THEN lo + 1 ELSE lo
    IN Rat(100 * s[lo + 1] + (100 - frac) * (s[hi + 1] - s[lo + 1]), 100)

(* np.percentile(a, q), linear interpolation: the virtual index is         *)
(* (n - 1) * q / 100, the value lies between its two neighbours            *)
Percentile(a, q) ==
    LET s == Sorted(a)
        n == Len(a)
        lo == ((n - 1) * q) \div 100
        frac == ((n - 1) * q) % 100
        hi == IF lo + 1 < n THEN lo + 1 ELSE lo
    IN Rat(100 * s[lo + 1] + frac * (s[hi + 1] - s[lo + 1]), 100)

(* sum(o.amount for o in opportunities) *)
TotalPipeline(opps) == SumSeq(amounts_of(opps))

(* sum(o.amount * o.probability for o in opportunities), over PScale *)
WeightedPipeline(opps) ==
    Rat(SumSeq([e \in 1..Len(opps) |-> opps[e].amount * opps[e].probability]), PScale)

(* the amounts a caller of compute_summary_statistics is tried with: one   *)
(* cent besides the amounts above, so that amount * probability can fall   *)
(* between two cents                                                       *)
StatisticsOpps ==
    {Opportunity(a, p, Today) : a \in Amounts \cup {CENT}, p \in Probabilities}
StatisticsOppLists == SeqsUpTo(StatisticsOpps, MaxOpps)

(* std_dev holds the square of the standard deviation; weighted is the     *)
(* value round(weighted_pipeline, 2) returned                              *)
SummaryStatistics(a, opps, weighted) ==
    [mean |-> Mean(a),
     median |-> Median(a),
     std_dev |-> Variance(a),
     p10 |-> Percentile(a, 10),
     p25 |-> Percentile(a, 25),
     p75 |-> Percentile(a, 75),
     p90 |-> Percentile(a, 90),
     min_outcome |-> MinSeq(a),
     max_outcome |-> MaxSeq(a),
     total_pipeline_value |-> Round2(TotalPipeline(opps), 1),
     weighted_pipeline_value |-> weighted]

(* the reductions of an empty array raise: np.percentile IndexError in     *)
(* some numpy releases, np.min ValueError in all                           *)
compute_summary_statistics(a, opps, next) ==
    IF a = <<>>
    THEN /\ raised' \in {"ValueError", "IndexError"}
         /\ pc' = "raised"
         /\ summary_stats' = None
    ELSE /\ \E w \in Round2Either(WeightedPipeline(opps).num, WeightedPipeline(opps).den) :
                summary_stats' = Some(SummaryStatistics(a, opps, w))
         /\ pc' = next
         /\ raised' = raised

InitStatistics ==
    /\ entry = "compute_summary_statistics"
    /\ pc = "call"
    /\ raised = ""
    /\ opportunities = <<>>
    /\ num_simulations = 0
    /\ time_horizon_days = None
    /\ revenue_targets = None
    /\ filtered_opps \in StatisticsOppLists
    /\ excluded_count = 0
    /\ targets = <<>>
    /\ random_draws = None
    /\ won_matrix = None
    /\ outcomes \in {Some(a) : a \in OutcomeArrays}
    /\ summary_stats = None
    /\ target_analysis = None
    /\ num_buckets = 0
    /\ histogram = None
    /\ response = None
    /\ ProcessStart
    /\ CoreOnly

CallComputeSummaryStatistics ==
    /\ entry = "compute_summary_statistics"
    /\ pc = "call"
    /\ compute_summary_statistics(The(outcomes), filtered_opps, "returned")
    /\ UNCHANGED <<entry, np_random, settings, payload, constructed, status_code,
                   opportunities, num_simulations, time_horizon_days,
                   revenue_targets, filtered_opps, excluded_count, targets,
                   random_draws, won_matrix, outcomes, target_analysis,
                   num_buckets, histogram, response>>

NextStatistics == CallComputeSummaryStatistics

SpecStatistics == InitStatistics /\ [][NextStatistics]_vars

-----------------------------------------------------------------------------
(* compute_target_analysis *)

TargetValues == {0, CENT, CENT + 4, 4 * CENT}
TargetLists == SeqsUpTo(TargetValues, MaxTargets)

(* round(x, 4) of x = num/den, in units of 0.0001 *)
Round4(num, den) == RoundHalfEven(10000 * num, den)

(* f"{x * 100:.1f}%" of x = num/den, in units of 0.1 % *)
Pct1(num, den) == RoundHalfEven(1000 * num, den)

(* mutant: a strict comparison, outcomes > target *)
HitCountStrict(a, target) ==
    SumSeq([t \in 1..Len(a) |-> IF a[t] > target THEN 1 ELSE 0])

(* int(np.sum(outcomes >= target)) *)
HitCount(a, target) ==
    SumSeq([t \in 1..Len(a) |-> IF a[t] >= target THEN 1 ELSE 0])

TargetAnalysis(a, target, n) ==
    [target |-> Round2(target, 1),
     probability |-> Round4(HitCount(a, target), n),
     probability_pct |-> Pct1(HitCount(a, target), n)]

(* mutant: sorted(set(targets)), duplicates dropped *)
RECURSIVE Dedup(_)
Dedup(s) ==
    IF Len(s) <= 1 THEN s
    ELSE IF s[1] = s[2] THEN Dedup(Tail(s))
    ELSE <<s[1]>> \o Dedup(Tail(s))

SortedTargetsUnique(ts) == Dedup(Sorted(ts))

(* mutant: sorted(targets, reverse=True) *)
SortedTargetsDescending(ts) ==
    LET st == Sorted(ts) IN [i \in 1..Len(st) |-> st[Len(st) + 1 - i]]

(* the order the loop visits the targets in *)
SortedTargets(ts) == Sorted(ts)

TargetResults(a, ts, n) ==
    LET st == SortedTargets(ts)
    IN [i \in 1..Len(st) |-> TargetAnalysis(a, st[i], n)]

(* hit_count / num_simulations raises ZeroDivisionError on the first target *)
compute_target_analysis(a, ts, n, next) ==
    IF ts # <<>> /\ n = 0
    THEN /\ raised' = "ZeroDivisionError"
         /\ pc' = "raised"
         /\ target_analysis' = None
    ELSE /\ target_analysis' = Some(TargetResults(a, ts, n))
         /\ pc' = next
         /\ raised' = raised

InitTargets ==
    /\ entry = "compute_target_analysis"
    /\ pc = "call"
    /\ raised = ""
    /\ opportunities = <<>>
    /\ num_simulations \in 0..MaxArray
    /\ time_horizon_days = None
    /\ revenue_targets = None
    /\ filtered_opps = <<>>
    /\ excluded_count = 0
    /\ targets \in TargetLists
    /\ random_draws = None
    /\ won_matrix = None
    /\ outcomes \in {Some(a) : a \in OutcomeArrays}
    /\ summary_stats = None
    /\ target_analysis = None
    /\ num_buckets = 0
    /\ histogram = None
    /\ response = None
    /\ ProcessStart
    /\ CoreOnly

CallComputeTargetAnalysis ==
    /\ entry = "compute_target_analysis"
    /\ pc = "call"
    /\ compute_target_analysis(The(outcomes), targets, num_simulations, "returned")
    /\ UNCHANGED <<entry, np_random, settings, payload, constructed, status_code,
                   opportunities, num_simulations, time_horizon_days,
                   revenue_targets, filtered_opps, excluded_count, targets,
                   random_draws, won_matrix, outcomes, summary_stats,
                   num_buckets, histogram, response>>

NextTargets == CallComputeTargetAnalysis

SpecTargets == InitTargets /\ [][NextTargets]_vars

-----------------------------------------------------------------------------
(* compute_histogram: np.histogram(outcomes, bins=num_buckets) with equal- *)
(* width bins over [min, max]; an empty array gives the range [0, 1], a    *)
(* range of zero width is widened by 0.5 on each side.                     *)

MaxBuckets == 3
MaxHistArray == 4
DefaultBuckets == 12
TestBuckets == 10
BucketCounts == (0..MaxBuckets) \cup {TestBuckets, DefaultBuckets}

HistogramValues == {0, CENT, 2 * CENT, 3 * CENT}
HistogramArrays == SeqsUpTo(HistogramValues, MaxHistArray)

RangeOf(a) ==
    LET first == IF a = <<>> THEN 0 ELSE MinSeq(a)
        last == IF a = <<>> THEN DOLLAR ELSE MaxSeq(a)
    IN IF first = last
       THEN [first |-> first - DOLLAR \div 2, last |-> last + DOLLAR \div 2]
       ELSE [first |-> first, last |-> last]

(* edges laid out from 0 to the maximum, not from the minimum *)
BinEdgeFromZero(a, bins, i) ==
    LET r == RangeOf(a)
    IN Rat(i * r.last, bins)

(* bin_edges[i], i in 0..bins: np.linspace(first, last, bins + 1) *)
BinEdge(a, bins, i) ==
    LET r == RangeOf(a)
    IN Rat(r.first * bins + i * (r.last - r.first), bins)

(* mutant: every bin half-open, the maximum falling outside the last one *)
BinIndexHalfOpen(a, bins, x) ==
    LET r == RangeOf(a)
    IN ((x - r.first) * bins) \div (r.last - r.first)

(* the bin an outcome is counted in (0-based): its position in the range   *)
(* scaled to the bin count and truncated, the right edge going to the last *)
(* bin                                                                     *)
BinIndex(a, bins, x) ==
    LET r == RangeOf(a)
        f == ((x - r.first) * bins) \div (r.last - r.first)
    IN IF f = bins THEN bins - 1 ELSE f

BinCount(a, bins, i) ==
    SumSeq([t \in 1..Len(a) |-> IF BinIndex(a, bins, a[t]) = i THEN 1 ELSE 0])

(* mutant: round(count / num_simulations, 2) *)
FrequencyTwoPlaces(count, n) == IF n > 0 THEN 100 * RoundHalfEven(100 * count, n) ELSE 0

(* round(count / num_simulations, 4) if num_simulations > 0 else 0.0 *)
Frequency(count, n) == IF n > 0 THEN Round4(count, n) ELSE 0

(* fmt(v): millions with one decimal, thousands with none, else whole      *)
(* dollars; the number shown, in units of the last digit shown             *)
Fmt(v) ==
    IF v.num \div v.den >= 1000000 * DOLLAR
    THEN <<"M", RoundHalfEven(v.num, v.den * 100000 * DOLLAR)>>
    ELSE IF v.num \div v.den >= 1000 * DOLLAR
    THEN <<"K", RoundHalfEven(v.num, v.den * 1000 * DOLLAR)>>
    ELSE <<"", RoundHalfEven(v.num, v.den * DOLLAR)>>

HistogramBucket(a, bins, i) ==
    [range_low |-> Round2(BinEdge(a, bins, i).num, BinEdge(a, bins, i).den),
     range_high |-> Round2(BinEdge(a, bins, i + 1).num, BinEdge(a, bins, i + 1).den),
     label |-> <<Fmt(BinEdge(a, bins, i)), Fmt(BinEdge(a, bins, i + 1))>>,
     count |-> BinCount(a, bins, i),
     frequency |-> Frequency(BinCount(a, bins, i), Len(a))]

Buckets(a, bins) == [j \in 1..bins |-> HistogramBucket(a, bins, j - 1)]

(* np.histogram raises ValueError unless bins >= 1 *)
compute_histogram(a, bins, next) ==
    IF bins < 1
    THEN /\ raised' = "ValueError"
         /\ pc' = "raised"
         /\ histogram' = None
    ELSE /\ histogram' = Some(Buckets(a, bins))
         /\ pc' = next
         /\ raised' = raised

InitHistogram ==
    /\ entry = "compute_histogram"
    /\ pc = "call"
    /\ raised = ""
    /\ opportunities = <<>>
    /\ num_simulations = 0
    /\ time_horizon_days = None
    /\ revenue_targets = None
    /\ filtered_opps = <<>>
    /\ excluded_count = 0
    /\ targets = <<>>
    /\ random_draws = None
    /\ won_matrix = None
    /\ outcomes \in {Some(a) : a \in HistogramArrays}
    /\ summary_stats = None
    /\ target_analysis = None
    /\ num_buckets \in BucketCounts
    /\ histogram = None
    /\ response = None
    /\ ProcessStart
    /\ CoreOnly

CallComputeHistogram ==
    /\ entry = "compute_histogram"
    /\ pc = "call"
    /\ compute_histogram(The(outcomes), num_buckets, "returned")
    /\ UNCHANGED <<entry, np_random, settings, payload, constructed, status_code,
                   opportunities, num_simulations, time_horizon_days,
                   revenue_targets, filtered_opps, excluded_count, targets,
                   random_draws, won_matrix, outcomes, summary_stats,
                   target_analysis, num_buckets, response>>

NextHistogram == CallComputeHistogram

SpecHistogram == InitHistogram /\ [][NextHistogram]_vars

-----------------------------------------------------------------------------
(* filter_opportunities_by_horizon *)

(* a window that stops one day short of horizon_date *)
InHorizonExclusiveEnd(o, days) == Today <= o.close_date /\ o.close_date < Today + days

(* cutoff <= o.close_date <= horizon_date, horizon_date = cutoff + days *)
InHorizon(o, days) == Today <= o.close_date /\ o.close_date <= Today + days

(* a filter that drops past-dated events even when no horizon is given *)
IncludedDropsPast(opps, horizon) ==
    IF horizon = None THEN SelectSeq(opps, LAMBDA o : Today <= o.close_date)
    ELSE SelectSeq(opps, LAMBDA o : InHorizon(o, The(horizon)))

Included(opps, horizon) ==
    IF horizon = None THEN opps
    ELSE SelectSeq(opps, LAMBDA o : InHorizon(o, The(horizon)))

(* an excluded count that reports the length of the included list *)
ExcludedCountOfIncluded(opps, horizon) ==
    IF horizon = None THEN 0 ELSE Len(Included(opps, horizon))

ExcludedCount(opps, horizon) ==
    IF horizon = None THEN 0
    ELSE Len(opps) - Len(Included(opps, horizon))

-----------------------------------------------------------------------------
(* run_full_simulation, step by step.                                      *)

MaxHorizon == 1
MaxRequestTargets == 2

Dates == (Today - 1)..(Today + MaxHorizon + 1)
Horizons == {None} \cup {Some(h) : h \in 1..MaxHorizon}

RequestOpps == {Opportunity(a, p, d) : a \in Amounts, p \in Probabilities, d \in Dates}
RequestOppLists == SeqsUpTo(RequestOpps, MaxOpps)

RequestTargetValues == {0, 4 * CENT}
RequestTargets ==
    {None} \cup {Some(ts) : ts \in SeqsUpTo(RequestTargetValues, MaxRequestTargets)}

(* a choice that falls back to the defaults only when the list is absent *)
ChosenTargetsUnlessNone(rt) ==
    IF rt = None THEN settings.default_revenue_targets ELSE The(rt)

(* revenue_targets if revenue_targets else settings.default_revenue_targets *)
ChosenTargets(rt) ==
    IF rt = None \/ The(rt) = <<>> THEN settings.default_revenue_targets ELSE The(rt)

(* compute_time_ms and timestamp are wall-clock readings and are left out *)
SimulationMetadata ==
    [num_simulations |-> num_simulations,
     opportunities_included |-> Len(filtered_opps),
     opportunities_filtered_out |-> excluded_count,
     time_horizon_days |-> time_horizon_days]

SimulationResponse ==
    [summary_statistics |-> The(summary_stats),
     target_analysis |-> The(target_analysis),
     histogram_buckets |-> The(histogram),
     metadata |-> SimulationMetadata]

InitFull ==
    /\ entry = "run_full_simulation"
    /\ pc = "filter"
    /\ raised = ""
    /\ opportunities \in RequestOppLists
    /\ num_simulations \in 0..MaxSims
    /\ time_horizon_days \in Horizons
    /\ revenue_targets \in RequestTargets
    /\ filtered_opps = <<>>
    /\ excluded_count = 0
    /\ targets = <<>>
    /\ random_draws = None
    /\ won_matrix = None
    /\ outcomes = None
    /\ summary_stats = None
    /\ target_analysis = None
    /\ num_buckets = 0
    /\ histogram = None
    /\ response = None
    /\ ProcessStart
    /\ CoreOnly

(* the steps are those of run_full_simulation, called by a caller of the  *)
(* engine or by the simulate endpoint                                      *)
InFull(at) == entry \in {"run_full_simulation", "simulate"} /\ pc = at

Step1Filter ==
    /\ InFull("filter")
    /\ filtered_opps' = Included(opportunities, time_horizon_days)
    /\ excluded_count' = ExcludedCount(opportunities, time_horizon_days)
    /\ pc' = "targets"
    /\ UNCHANGED <<entry, np_random, settings, payload, constructed, status_code,
                   raised, opportunities, num_simulations, time_horizon_days,
                   revenue_targets, targets, random_draws, won_matrix, outcomes,
                   summary_stats, target_analysis, num_buckets, histogram, response>>

Step2Targets ==
    /\ InFull("targets")
    /\ targets' = ChosenTargets(revenue_targets)
    /\ pc' = "monte_carlo"
    /\ UNCHANGED <<entry, np_random, settings, payload, constructed, status_code,
                   raised, opportunities, num_simulations, time_horizon_days,
                   revenue_targets, filtered_opps, excluded_count, random_draws,
                   won_matrix, outcomes, summary_stats, target_analysis,
                   num_buckets, histogram, response>>

Step3MonteCarlo ==
    /\ InFull("monte_carlo")
    /\ run_monte_carlo(filtered_opps, num_simulations, "statistics")
    /\ UNCHANGED <<entry, settings, payload, constructed, status_code,
                   opportunities, num_simulations, time_horizon_days,
                   revenue_targets, filtered_opps, excluded_count, targets,
                   summary_stats, target_analysis, num_buckets, histogram, response>>

(* statistics taken over the whole input list, the filtered-out events too *)
Step4StatisticsAllOpps ==
    /\ InFull("statistics")
    /\ compute_summary_statistics(The(outcomes), opportunities, "target_analysis")
    /\ UNCHANGED <<entry, np_random, settings, payload, constructed, status_code,
                   opportunities, num_simulations, time_horizon_days,
                   revenue_targets, filtered_opps, excluded_count, targets,
                   random_draws, won_matrix, outcomes, target_analysis,
                   num_buckets, histogram, response>>

Step4Statistics ==
    /\ InFull("statistics")
    /\ compute_summary_statistics(The(outcomes), filtered_opps, "target_analysis")
    /\ UNCHANGED <<entry, np_random, settings, payload, constructed, status_code,
                   opportunities, num_simulations, time_horizon_days,
                   revenue_targets, filtered_opps, excluded_count, targets,
                   random_draws, won_matrix, outcomes, target_analysis,
                   num_buckets, histogram, response>>

Step4TargetAnalysis ==
    /\ InFull("target_analysis")
    /\ compute_target_analysis(The(outcomes), targets, num_simulations, "histogram")
    /\ UNCHANGED <<entry, np_random, settings, payload, constructed, status_code,
                   opportunities, num_simulations, time_horizon_days,
                   revenue_targets, filtered_opps, excluded_count, targets,
                   random_draws, won_matrix, outcomes, summary_stats,
                   num_buckets, histogram, response>>

Step4Histogram ==
    /\ InFull("histogram")
    /\ num_buckets' = DefaultBuckets
    /\ compute_histogram(The(outcomes), DefaultBuckets, "respond")
    /\ UNCHANGED <<entry, np_random, settings, payload, constructed, status_code,
                   opportunities, num_simulations, time_horizon_days,
                   revenue_targets, filtered_opps, excluded_count, targets,
                   random_draws, won_matrix, outcomes, summary_stats,
                   target_analysis, response>>

(* a handler that answers with whatever was computed before a failure *)
Step5RespondAfterFailure ==
    /\ entry = "run_full_simulation"
    /\ pc \in {"respond", "raised"}
    /\ response = None
    /\ response' = IF pc = "respond" THEN Some(SimulationResponse)
                   ELSE Some([summary_statistics |-> summary_stats,
                              target_analysis |-> target_analysis,
                              histogram_buckets |-> histogram,
                              metadata |-> SimulationMetadata])
    /\ pc' = "returned"
    /\ UNCHANGED <<entry, np_random, settings, payload, constructed, status_code,
                   raised, opportunities, num_simulations, time_horizon_days,
                   revenue_targets, filtered_opps, excluded_count, targets,
                   random_draws, won_matrix, outcomes, summary_stats,
                   target_analysis, num_buckets, histogram>>

Step5Respond ==
    /\ InFull("respond")
    /\ response' = Some(SimulationResponse)
    /\ pc' = "returned"
    /\ UNCHANGED <<entry, np_random, settings, payload, constructed, status_code,
                   raised, opportunities, num_simulations, time_horizon_days,
                   revenue_targets, filtered_opps, excluded_count, targets,
                   random_draws, won_matrix, outcomes, summary_stats,
                   target_analysis, num_buckets, histogram>>

Next ==
    \/ Step1Filter
    \/ Step2Targets
    \/ Step3MonteCarlo
    \/ Step4Statistics
    \/ Step4TargetAnalysis
    \/ Step4Histogram
    \/ Step5Respond

Init == InitFull

Spec == Init /\ [][Next]_vars

-----------------------------------------------------------------------------
(* filter_opportunities_by_horizon called on its own: the list it is given *)
(* is held in opportunities, what it returns in filtered_opps and          *)
(* excluded_count.  A direct caller may pass a horizon of 0 days.          *)

FilterHorizons == {None} \cup {Some(h) : h \in 0..MaxHorizon}

InitFilter ==
    /\ entry = "filter_opportunities_by_horizon"
    /\ pc = "call"
    /\ raised = ""
    /\ opportunities \in RequestOppLists
    /\ num_simulations = 0
    /\ time_horizon_days \in FilterHorizons
    /\ revenue_targets = None
    /\ filtered_opps = <<>>
    /\ excluded_count = 0
    /\ targets = <<>>
    /\ random_draws = None
    /\ won_matrix = None
    /\ outcomes = None
    /\ summary_stats = None
    /\ target_analysis = None
    /\ num_buckets = 0
    /\ histogram = None
    /\ response = None
    /\ ProcessStart
    /\ CoreOnly

CallFilterOpportunitiesByHorizon ==
    /\ entry = "filter_opportunities_by_horizon"
    /\ pc = "call"
    /\ filtered_opps' = Included(opportunities, time_horizon_days)
    /\ excluded_count' = ExcludedCount(opportunities, time_horizon_days)
    /\ pc' = "returned"
    /\ UNCHANGED <<entry, np_random, settings, payload, constructed, status_code,
                   raised, opportunities, num_simulations, time_horizon_days,
                   revenue_targets, targets, random_draws, won_matrix, outcomes,
                   summary_stats, target_analysis, num_buckets, histogram, response>>

NextFilter == CallFilterOpportunitiesByHorizon

SpecFilter == InitFilter /\ [][NextFilter]_vars

-----------------------------------------------------------------------------
(* models.py: constructing an Opportunity or a SimulationRequest from      *)
(* keyword arguments.  Pydantic checks the Field constraints, then runs    *)
(* the validators; a failure raises ValidationError and no object exists.  *)
(* The name of an opportunity takes no part in any computation and is left *)
(* out.  The limits are scaled as the amounts are: the 10B USD cap stands  *)
(* to the 1M USD default target as amount_cap to a cent, num_simulations   *)
(* ranges over MinSims..MaxSims and time_horizon_days over                 *)
(* MinHorizon..MaxHorizon.                                                 *)

amount_cap == 100 * DOLLAR
MinSims == 1
MinHorizon == 1

(* amount: gt=0, then amount_must_be_reasonable; probability: ge=0, le=1 *)
ValidOpportunity(o) ==
    /\ o.amount > 0
    /\ o.probability >= 0
    /\ o.probability <= PScale
    /\ ~(o.amount > amount_cap)

(* a validation that lets a target of exactly 0 through *)
ValidRequestZeroTargetAllowed(r) ==
    /\ Len(r.opportunities) >= 1
    /\ \A i \in 1..Len(r.opportunities) : ValidOpportunity(r.opportunities[i])
    /\ r.num_simulations >= MinSims
    /\ r.num_simulations <= MaxSims
    /\ \/ r.time_horizon_days = None
       \/ /\ The(r.time_horizon_days) >= MinHorizon
          /\ The(r.time_horizon_days) <= MaxHorizon
    /\ \/ r.revenue_targets = None
       \/ \A k \in 1..Len(The(r.revenue_targets)) : ~(The(r.revenue_targets)[k] < 0)

(* opportunities: min_length=1 and each item an Opportunity;               *)
(* num_simulations ge/le; time_horizon_days ge/le;                         *)
(* validate_targets_are_positive                                           *)
ValidRequest(r) ==
    /\ Len(r.opportunities) >= 1
    /\ \A i \in 1..Len(r.opportunities) : ValidOpportunity(r.opportunities[i])
    /\ r.num_simulations >= MinSims
    /\ r.num_simulations <= MaxSims
    /\ \/ r.time_horizon_days = None
       \/ /\ The(r.time_horizon_days) >= MinHorizon
          /\ The(r.time_horizon_days) <= MaxHorizon
    /\ \/ r.revenue_targets = None
       \/ \A k \in 1..Len(The(r.revenue_targets)) : ~(The(r.revenue_targets)[k] <= 0)

(* the object a successful construction returns: amounts rounded to cents *)
OpportunityModel(o) == Opportunity(o.amount, o.probability, o.close_date)

SimulationRequestModel(r) ==
    [opportunities |->
         [i \in 1..Len(r.opportunities) |-> OpportunityModel(r.opportunities[i])],
     num_simulations |-> r.num_simulations,
     time_horizon_days |-> r.time_horizon_days,
     revenue_targets |-> r.revenue_targets]

(* keyword arguments a caller may pass: amounts below, at and above 0 and  *)
(* the cap (0.004 USD is positive and rounds to 0.00), probabilities below *)
(* 0, at 0, at 1 and above 1                                               *)
PayloadAmounts == {-2 * CENT, 0, 4, 2 * CENT, amount_cap, amount_cap + CENT}
PayloadProbabilities == {-1, 0, PScale, PScale + 1}
OpportunityPayloads ==
    {[amount |-> a, probability |-> p, close_date |-> Today] :
        a \in PayloadAmounts, p \in PayloadProbabilities}

PayloadTargetValues == {-CENT, 0, 4 * CENT}
RequestPayloads ==
    {[opportunities |-> os, num_simulations |-> n,
      time_horizon_days |-> h, revenue_targets |-> ts] :
        os \in SeqsUpTo(OpportunityPayloads, MaxOpps),
        n \in (MinSims - 1)..(MaxSims + 1),
        h \in {None} \cup {Some(d) : d \in (MinHorizon - 1)..(MaxHorizon + 1)},
        ts \in {None} \cup {Some(t) : t \in SeqsUpTo(PayloadTargetValues, MaxRequestTargets)}}

InitModels ==
    /\ entry \in {"Opportunity", "SimulationRequest"}
    /\ payload \in {Some(x) : x \in IF entry = "Opportunity" THEN OpportunityPayloads
                                                            ELSE RequestPayloads}
    /\ constructed = None
    /\ status_code = 0
    /\ pc = "call"
    /\ raised = ""
    /\ opportunities = <<>>
    /\ num_simulations = 0
    /\ time_horizon_days = None
    /\ revenue_targets = None
    /\ filtered_opps = <<>>
    /\ excluded_count = 0
    /\ targets = <<>>
    /\ random_draws = None
    /\ won_matrix = None
    /\ outcomes = None
    /\ summary_stats = None
    /\ target_analysis = None
    /\ num_buckets = 0
    /\ histogram = None
    /\ response = None
    /\ ProcessStart

ConstructOpportunity ==
    /\ entry = "Opportunity"
    /\ pc = "call"
    /\ IF ValidOpportunity(The(payload))
       THEN /\ constructed' = Some(OpportunityModel(The(payload)))
            /\ pc' = "returned"
            /\ raised' = raised
       ELSE /\ constructed' = None
            /\ pc' = "raised"
            /\ raised' = "ValidationError"
    /\ UNCHANGED <<entry, np_random, settings, payload, status_code,
                   opportunities, num_simulations, time_horizon_days,
                   revenue_targets, filtered_opps, excluded_count, targets,
                   random_draws, won_matrix, outcomes, summary_stats,
                   target_analysis, num_buckets, histogram, response>>

ConstructSimulationRequest ==
    /\ entry = "SimulationRequest"
    /\ pc = "call"
    /\ IF ValidRequest(The(payload))
       THEN /\ constructed' = Some(SimulationRequestModel(The(payload)))
            /\ pc' = "returned"
            /\ raised' = raised
       ELSE /\ constructed' = None
            /\ pc' = "raised"
            /\ raised' = "ValidationError"
    /\ UNCHANGED <<entry, np_random, settings, payload, status_code,
                   opportunities, num_simulations, time_horizon_days,
                   revenue_targets, filtered_opps, excluded_count, targets,
                   random_draws, won_matrix, outcomes, summary_stats,
                   target_analysis, num_buckets, histogram, response>>

NextModels ==
    \/ ConstructOpportunity
    \/ ConstructSimulationRequest

SpecModels == InitModels /\ [][NextModels]_vars

-----------------------------------------------------------------------------
(* main.py: the simulate endpoint.  FastAPI builds the SimulationRequest   *)
(* from the posted payload and answers 422 itself when that fails, before  *)
(* the handler runs (models.py, header); the handler calls                 *)
(* run_full_simulation and turns a ValueError into HTTPException 422 and a *)
(* MemoryError into HTTPException 400; any other exception reaches         *)
(* global_exception_handler, which answers 500.                            *)

PostedPayloads ==
    {[opportunities |-> os, num_simulations |-> n,
      time_horizon_days |-> h, revenue_targets |-> ts] :
        os \in RequestOppLists, n \in 0..MaxSims,
        h \in Horizons, ts \in RequestTargets}

(* both failures answered with the one status *)
StatusForAlways422(exc) ==
    IF exc = "ValueError" THEN 422
    ELSE IF exc = "MemoryError" THEN 422
    ELSE 500

(* except ValueError: 422; except MemoryError: 400; otherwise the global   *)
(* handler: 500                                                            *)
StatusFor(exc) ==
    IF exc = "ValueError" THEN 422
    ELSE IF exc = "MemoryError" THEN 400
    ELSE 500

InitSimulate ==
    /\ entry = "simulate"
    /\ pc = "validate"
    /\ payload \in {Some(x) : x \in PostedPayloads}
    /\ constructed = None
    /\ status_code = 0
    /\ raised = ""
    /\ opportunities = <<>>
    /\ num_simulations = 0
    /\ time_horizon_days = None
    /\ revenue_targets = None
    /\ filtered_opps = <<>>
    /\ excluded_count = 0
    /\ targets = <<>>
    /\ random_draws = None
    /\ won_matrix = None
    /\ outcomes = None
    /\ summary_stats = None
    /\ target_analysis = None
    /\ num_buckets = 0
    /\ histogram = None
    /\ response = None
    /\ ProcessStart

(* request: SimulationRequest, and the arguments of run_full_simulation *)
SimulateValidate ==
    /\ entry = "simulate"
    /\ pc = "validate"
    /\ IF ValidRequest(The(payload))
       THEN /\ constructed' = Some(SimulationRequestModel(The(payload)))
            /\ opportunities' = SimulationRequestModel(The(payload)).opportunities
            /\ num_simulations' = The(payload).num_simulations
            /\ time_horizon_days' = The(payload).time_horizon_days
            /\ revenue_targets' = The(payload).revenue_targets
            /\ status_code' = status_code
            /\ pc' = "filter"
       ELSE /\ status_code' = 422
            /\ pc' = "responded"
            /\ UNCHANGED <<constructed, opportunities, num_simulations,
                           time_horizon_days, revenue_targets>>
    /\ UNCHANGED <<entry, np_random, settings, payload, raised,
                   filtered_opps, excluded_count, targets,
                   random_draws, won_matrix, outcomes, summary_stats,
                   target_analysis, num_buckets, histogram, response>>

(* return result *)
SimulateReturn ==
    /\ entry = "simulate"
    /\ pc = "returned"
    /\ status_code' = 200
    /\ pc' = "responded"
    /\ UNCHANGED <<entry, np_random, settings, payload, constructed, raised,
                   opportunities, num_simulations, time_horizon_days,
                   revenue_targets, filtered_opps, excluded_count, targets,
                   random_draws, won_matrix, outcomes, summary_stats,
                   target_analysis, num_buckets, histogram, response>>

SimulateExcept ==
    /\ entry = "simulate"
    /\ pc = "raised"
    /\ status_code' = StatusFor(raised)
    /\ pc' = "responded"
    /\ UNCHANGED <<entry, np_random, settings, payload, constructed, raised,
                   opportunities, num_simulations, time_horizon_days,
                   revenue_targets, filtered_opps, excluded_count, targets,
                   random_draws, won_matrix, outcomes, summary_stats,
                   target_analysis, num_buckets, histogram, response>>

NextSimulate ==
    \/ SimulateValidate
    \/ Next
    \/ SimulateReturn
    \/ SimulateExcept

SpecSimulate == InitSimulate /\ [][NextSimulate]_vars

-----------------------------------------------------------------------------
(* Every function of simulation.py: a caller invokes one of them.          *)

InitEntryPoints ==
    \/ InitMonteCarlo
    \/ InitStatistics
    \/ InitTargets
    \/ InitHistogram
    \/ InitFilter
    \/ InitFull

NextEntryPoints ==
    \/ NextMonteCarlo
    \/ NextStatistics
    \/ NextTargets
    \/ NextHistogram
    \/ NextFilter
    \/ Next

SpecEntryPoints == InitEntryPoints /\ [][NextEntryPoints]_vars

-----------------------------------------------------------------------------
(* Properties.                                                             *)

RECURSIVE SetSum(_, _)
SetSum(f, E) ==
    IF E = {} THEN 0
    ELSE LET e == CHOOSE x \in E : TRUE IN f[e] + SetSum(f, E \ {e})

Abs(x) == IF x < 0 THEN -x ELSE x

Trials == 1..Len(The(outcomes))
Events == 1..Len(filtered_opps)
AmountOf == [e \in Events |-> filtered_opps[e].amount]
ProbabilityOf == [e \in Events |-> filtered_opps[e].probability]

(* C1: every outcome run_monte_carlo returns lies between 0 and the sum of *)
(* the amounts of the events it was given.                                 *)
OutcomesWithinPipeline ==
    IsSome(outcomes) =>
        \A t \in Trials :
            /\ 0 <= The(outcomes)[t]
            /\ The(outcomes)[t] <= SetSum(AmountOf, Events)

OutcomesWithinPipelineWitness ==
    /\ IsSome(outcomes)
    /\ Len(filtered_opps) = 2
    /\ Len(The(outcomes)) = 2
    /\ The(outcomes)[1] = SetSum(AmountOf, Events)
    /\ 0 < The(outcomes)[2]
    /\ The(outcomes)[2] < SetSum(AmountOf, Events)

(* C2: in every trial and for every draw, an event of probability 1.0 is   *)
(* won and adds its full amount to the outcome, an event of probability    *)
(* 0.0 is lost and adds nothing, whatever the other events are.            *)
CertainAndImpossibleEvents ==
    IsSome(random_draws) =>
        \A t \in Trials :
            /\ \A e \in Events :
                /\ ProbabilityOf[e] = PScale => The(won_matrix)[t][e]
                /\ ProbabilityOf[e] = 0 => ~The(won_matrix)[t][e]
            /\ The(outcomes)[t] =
                  SetSum(AmountOf, {e \in Events : ProbabilityOf[e] = PScale})
                + SetSum(AmountOf, {e \in Events : /\ ProbabilityOf[e] \notin {0, PScale}
                                                   /\ The(won_matrix)[t][e]})

CertainAndImpossibleEventsWitness ==
    /\ IsSome(random_draws)
    /\ \E t \in Trials : \E c, i \in Events :
        /\ ProbabilityOf[c] = PScale
        /\ The(random_draws)[t][c] = PScale - 1
        /\ ProbabilityOf[i] = 0
        /\ The(random_draws)[t][i] = 0
        /\ The(outcomes)[t] = AmountOf[c]

(* C3: the outcome array has exactly num_simulations entries, and for an   *)
(* empty event list every entry is 0.                                      *)
OutcomeLength ==
    IsSome(outcomes) =>
        /\ Len(The(outcomes)) = num_simulations
        /\ filtered_opps = <<>> => \A t \in Trials : The(outcomes)[t] = 0

OutcomeLengthWitness ==
    /\ IsSome(outcomes)
    /\ filtered_opps = <<>>
    /\ num_simulations = 2
    /\ The(outcomes) = <<0, 0>>

(* C4: there is one draw per (trial, event); an event is won in a trial    *)
(* iff its draw is strictly below its probability, and the outcome of the  *)
(* trial is the sum of the amounts of exactly the events won in it.        *)
WonIffDrawBelowProbability ==
    IsSome(random_draws) =>
        /\ Len(The(random_draws)) = num_simulations
        /\ \A t \in Trials :
            /\ Len(The(random_draws)[t]) = Len(filtered_opps)
            /\ \A e \in Events :
                The(won_matrix)[t][e] <=> The(random_draws)[t][e] < ProbabilityOf[e]
            /\ The(outcomes)[t] =
                  SetSum(AmountOf, {e \in Events : The(random_draws)[t][e] < ProbabilityOf[e]})

WonIffDrawBelowProbabilityWitness ==
    /\ IsSome(random_draws)
    /\ Len(filtered_opps) = 2
    /\ num_simulations = 2
    /\ ProbabilityOf[1] = ProbabilityOf[2]
    /\ The(won_matrix)[1] = <<TRUE, FALSE>>
    /\ The(won_matrix)[2] = <<FALSE, TRUE>>
    /\ The(outcomes) = <<AmountOf[1], AmountOf[2]>>

(* C5: for a non-empty outcome array the percentiles are ordered,          *)
(* p10 <= p25 <= median <= p75 <= p90.                                     *)
PercentilesOrdered ==
    IsSome(summary_stats) =>
        LET st == The(summary_stats)
        IN /\ Leq(st.p10, st.p25)
           /\ Leq(st.p25, st.median)
           /\ Leq(st.median, st.p75)
           /\ Leq(st.p75, st.p90)

PercentilesOrderedWitness ==
    /\ IsSome(summary_stats)
    /\ Len(The(outcomes)) = 3
    /\ LET st == The(summary_stats)
       IN /\ Lt(st.p10, st.p25)
          /\ Lt(st.p25, st.median)
          /\ Lt(st.median, st.p75)
          /\ Lt(st.p75, st.p90)

Records == 1..Len(The(target_analysis))

(* C6: the hit probability never increases along the returned list, and a  *)
(* record with a larger target never has a larger probability than one     *)
(* with a smaller target.                                                  *)
HitProbabilityNonIncreasing ==
    IsSome(target_analysis) =>
        LET ta == The(target_analysis)
        IN /\ \A i, j \in Records : i < j => ta[i].probability >= ta[j].probability
           /\ \A i, j \in Records :
                ta[i].target < ta[j].target => ta[i].probability >= ta[j].probability

HitProbabilityNonIncreasingWitness ==
    /\ IsSome(target_analysis)
    /\ Len(The(target_analysis)) = 3
    /\ targets[1] > targets[2]
    /\ LET ta == The(target_analysis)
       IN /\ ta[1].probability > ta[2].probability
          /\ ta[2].probability > ta[3].probability

(* C7: one record per input target, duplicates included, in ascending      *)
(* order of target whatever the input order; no target, no record.         *)
OneRecordPerTargetAscending ==
    IsSome(target_analysis) =>
        LET ta == The(target_analysis)
        IN /\ Len(ta) = Len(targets)
           /\ \A i, j \in Records : i < j => ta[i].target <= ta[j].target
           /\ \A v \in {Round2(targets[k], 1) : k \in 1..Len(targets)} :
                Cardinality({i \in Records : ta[i].target = v})
                    = Cardinality({k \in 1..Len(targets) : Round2(targets[k], 1) = v})
           /\ targets = <<>> => ta = <<>>

OneRecordPerTargetAscendingWitness ==
    /\ IsSome(target_analysis)
    /\ Len(targets) = 3
    /\ targets[1] > targets[2]
    /\ targets[1] = targets[3]
    /\ Len(The(target_analysis)) = 3

(* C8: each reported hit probability is count(outcomes >= target) /        *)
(* num_simulations rounded to 4 decimal places, the comparison inclusive;  *)
(* in run_full_simulation it lies in [0, 1].                               *)
HitProbabilityIsRoundedFraction ==
    IsSome(target_analysis) =>
        LET ta == The(target_analysis)
            st == Sorted(targets)
        IN \A i \in Records :
            LET hits == Cardinality({t \in Trials : The(outcomes)[t] >= st[i]})
            IN /\ 2 * Abs(ta[i].probability * num_simulations - 10000 * hits)
                    <= num_simulations
               /\ entry = "run_full_simulation" =>
                    /\ 0 <= ta[i].probability
                    /\ ta[i].probability <= 10000

HitProbabilityIsRoundedFractionWitness ==
    /\ entry = "run_full_simulation"
    /\ IsSome(response)
    /\ LET ta == The(response).target_analysis
       IN \E i \in 1..Len(ta) :
            /\ ta[i].probability = 5000
            /\ \E t \in Trials : The(outcomes)[t] = Sorted(targets)[i]

(* C9: the bucket counts sum to the number of outcomes, also when all      *)
(* outcomes are equal.                                                     *)
BucketCountsSumToTrials ==
    IsSome(histogram) =>
        SetSum([j \in 1..Len(The(histogram)) |-> The(histogram)[j].count],
               1..Len(The(histogram)))
            = Len(The(outcomes))

BucketCountsSumToTrialsWitness ==
    /\ IsSome(histogram)
    /\ num_buckets = DefaultBuckets
    /\ Len(The(outcomes)) = 3
    /\ \A t \in Trials : The(outcomes)[t] = The(outcomes)[1]
    /\ \E j \in 1..Len(The(histogram)) : The(histogram)[j].count = 3

(* C10: for 10 and for 12 buckets and at least one outcome, the bucket     *)
(* frequencies sum to 1.0 within 0.001.                                    *)
FrequenciesSumToOne ==
    (IsSome(histogram) /\ num_buckets \in {TestBuckets, DefaultBuckets}
        /\ Len(The(outcomes)) > 0) =>
        Abs(SetSum([j \in 1..Len(The(histogram)) |-> The(histogram)[j].frequency],
                   1..Len(The(histogram))) - 10000) < 10

FrequenciesSumToOneWitness ==
    /\ IsSome(histogram)
    /\ num_buckets = DefaultBuckets
    /\ Len(The(outcomes)) = 3
    /\ SetSum([j \in 1..Len(The(histogram)) |-> The(histogram)[j].frequency],
              1..Len(The(histogram))) = 9999

-----------------------------------------------------------------------------
(* The horizon filter.                                                     *)

FilterDone ==
    \/ entry = "filter_opportunities_by_horizon" /\ pc = "returned"
    \/ entry = "run_full_simulation" /\ pc # "filter"

Inputs == 1..Len(opportunities)

(* the input positions whose close date lies in [today, today + days] *)
InWindow(days) ==
    {i \in Inputs : /\ opportunities[i].close_date >= Today
                    /\ opportunities[i].close_date <= Today + days}

(* the k-th smallest position of a set of positions *)
NthOf(S, k) == CHOOSE i \in S : Cardinality({j \in S : j <= i}) = k

(* C11: with a horizon given, the filter keeps exactly the events whose    *)
(* close date lies in [today, today + horizon], both ends included, in     *)
(* input order; no event with a past close date is kept, and the excluded  *)
(* count is the number of events left out.                                 *)
HorizonWindowInclusive ==
    (FilterDone /\ IsSome(time_horizon_days)) =>
        LET kept == InWindow(The(time_horizon_days)) IN
        /\ Len(filtered_opps) = Cardinality(kept)
        /\ \A k \in 1..Len(filtered_opps) :
               filtered_opps[k] = opportunities[NthOf(kept, k)]
        /\ \A k \in 1..Len(filtered_opps) : filtered_opps[k].close_date >= Today
        /\ excluded_count = Cardinality(Inputs \ kept)

HorizonWindowInclusiveWitness ==
    /\ entry = "filter_opportunities_by_horizon"
    /\ pc = "returned"
    /\ time_horizon_days = Some(MaxHorizon)
    /\ Len(opportunities) = 2
    /\ opportunities[1].close_date = Today
    /\ opportunities[2].close_date = Today + MaxHorizon
    /\ filtered_opps = opportunities
    /\ excluded_count = 0

(* C12: with no horizon given, the filter returns every input event, the   *)
(* past-dated ones too, in input order, and an excluded count of 0.        *)
NoHorizonKeepsAll ==
    (FilterDone /\ time_horizon_days = None) =>
        /\ filtered_opps = opportunities
        /\ excluded_count = 0

NoHorizonKeepsAllWitness ==
    /\ entry = "filter_opportunities_by_horizon"
    /\ pc = "returned"
    /\ time_horizon_days = None
    /\ Len(opportunities) = 2
    /\ opportunities[1].close_date < Today
    /\ opportunities[2].close_date > Today + MaxHorizon
    /\ filtered_opps = opportunities
    /\ excluded_count = 0

-----------------------------------------------------------------------------
(* run_full_simulation: what the result says about its inputs.             *)

Returned == entry = "run_full_simulation" /\ IsSome(response)

(* the input positions that pass the horizon filter *)
Passing ==
    IF time_horizon_days = None THEN Inputs ELSE InWindow(The(time_horizon_days))

(* C13: in every result of run_full_simulation, opportunities_included is  *)
(* the number of input events that pass the horizon filter,                *)
(* opportunities_filtered_out the number that do not, and the two add up   *)
(* to the length of the input list.                                        *)
MetadataCountsPartitionInput ==
    Returned =>
        LET md == The(response).metadata IN
        /\ md.opportunities_included = Cardinality(Passing)
        /\ md.opportunities_filtered_out = Cardinality(Inputs \ Passing)
        /\ md.opportunities_included + md.opportunities_filtered_out
               = Len(opportunities)

MetadataCountsPartitionInputWitness ==
    /\ Returned
    /\ time_horizon_days = Some(MaxHorizon)
    /\ Len(opportunities) = 2
    /\ opportunities[1].close_date = Today + MaxHorizon
    /\ opportunities[2].close_date = Today + MaxHorizon + 1
    /\ The(response).metadata.opportunities_included = 1
    /\ The(response).metadata.opportunities_filtered_out = 1

(* C14: when no event is included and there is at least one trial, every   *)
(* statistic run_full_simulation computes is 0: mean, median, standard     *)
(* deviation, p10, p25, p75, p90, min, max and both pipeline values.       *)
EmptyPipelineAllZero ==
    (entry = "run_full_simulation" /\ IsSome(summary_stats) /\ filtered_opps = <<>>) =>
        LET s == The(summary_stats) IN
        /\ num_simulations > 0
        /\ \A t \in Trials : The(outcomes)[t] = 0
        /\ s.mean.num = 0 /\ s.median.num = 0 /\ s.std_dev.num = 0
        /\ s.p10.num = 0 /\ s.p25.num = 0 /\ s.p75.num = 0 /\ s.p90.num = 0
        /\ s.min_outcome = 0 /\ s.max_outcome = 0
        /\ s.total_pipeline_value = 0 /\ s.weighted_pipeline_value = 0

EmptyPipelineAllZeroWitness ==
    /\ Returned
    /\ Len(opportunities) = 2
    /\ filtered_opps = <<>>
    /\ num_simulations = MaxSims
    /\ The(response).summary_statistics.mean.num = 0
    /\ The(response).summary_statistics.max_outcome = 0
    /\ The(response).summary_statistics.total_pipeline_value = 0

(* the targets the claim says are analysed *)
TargetsToUse ==
    IF IsSome(revenue_targets) /\ Len(The(revenue_targets)) > 0
    THEN The(revenue_targets)
    ELSE default_revenue_targets

(* C15: run_full_simulation analyses exactly the caller's targets when the *)
(* list is non-empty and exactly the configured defaults when it is absent *)
(* or empty; the result has one record for each target of the list used.   *)
TargetsSuppliedOrDefault ==
    Returned =>
        LET ta == The(response).target_analysis
            used == TargetsToUse
        IN  /\ targets = used
            /\ Len(ta) = Len(used)
            /\ \A j \in 1..Len(used) :
                   Cardinality({k \in 1..Len(ta) : ta[k].target = used[j]})
                       = Cardinality({i \in 1..Len(used) : used[i] = used[j]})

TargetsSuppliedOrDefaultWitness ==
    /\ Returned
    /\ revenue_targets = Some(<<>>)
    /\ Len(The(response).target_analysis) = Len(default_revenue_targets)
    /\ The(response).target_analysis[1].target = default_revenue_targets[1]

-----------------------------------------------------------------------------
(* The range the histogram covers.                                         *)

HistogramOfOutcomes ==
    /\ IsSome(histogram)
    /\ IsSome(outcomes)
    /\ Len(The(outcomes)) > 0

MinOutcome ==
    CHOOSE x \in {The(outcomes)[t] : t \in Trials} :
        \A t \in Trials : x <= The(outcomes)[t]

MaxOutcome ==
    CHOOSE x \in {The(outcomes)[t] : t \in Trials} :
        \A t \in Trials : The(outcomes)[t] <= x

(* b is the point lo + i * (hi - lo) / bins, to the cent *)
AtEdge(b, lo, hi, bins, i) ==
    2 * Abs(b * bins - (lo * bins + i * (hi - lo))) <= CENT * bins

(* the buckets are num_buckets contiguous buckets of equal width from lo   *)
(* to hi, their bounds reported to the cent                                *)
PartitionsRange(lo, hi) ==
    LET h == The(histogram)
        bins == num_buckets
    IN  /\ Len(h) = bins
        /\ h[1].range_low = lo
        /\ h[bins].range_high = hi
        /\ \A j \in 1..(bins - 1) : h[j].range_high = h[j + 1].range_low
        /\ \A j \in 1..bins :
               /\ AtEdge(h[j].range_low, lo, hi, bins, j - 1)
               /\ AtEdge(h[j].range_high, lo, hi, bins, j)

(* C16 as claimed: for every non-empty outcome array, all-equal ones too,  *)
(* the buckets are the requested number of equal-width contiguous buckets  *)
(* from min(outcomes) to max(outcomes).                                    *)
HistogramPartitionsObservedRange ==
    HistogramOfOutcomes => PartitionsRange(MinOutcome, MaxOutcome)

(* C16: for every non-empty outcome array compute_histogram returns the    *)
(* requested number of equal-width contiguous buckets; they run from       *)
(* min(outcomes) to max(outcomes) when the outcomes are not all equal, and *)
(* from x - 0.5 to x + 0.5 when every outcome is x.                        *)
HistogramPartitionsBinnedRange ==
    HistogramOfOutcomes =>
        IF MinOutcome = MaxOutcome
        THEN PartitionsRange(MinOutcome - DOLLAR \div 2, MaxOutcome + DOLLAR \div 2)
        ELSE PartitionsRange(MinOutcome, MaxOutcome)

HistogramPartitionsBinnedRangeWitness ==
    /\ HistogramOfOutcomes
    /\ entry = "compute_histogram"
    /\ num_buckets = DefaultBuckets
    /\ Len(The(outcomes)) = 2
    /\ \A t \in Trials : The(outcomes)[t] = CENT
    /\ Len(The(histogram)) = DefaultBuckets
    /\ The(histogram)[1].range_low = CENT - DOLLAR \div 2
    /\ The(histogram)[DefaultBuckets].range_high = CENT + DOLLAR \div 2

-----------------------------------------------------------------------------
(* run_full_simulation called with parameters the request model rejects.   *)

InvalidParameter ==
    \/ num_simulations = 0
    \/ \E k \in 1..Len(TargetsToUse) : TargetsToUse[k] <= 0

(* C17 as claimed: called with a trial count of zero or a non-positive     *)
(* target, run_full_simulation returns no result.                          *)
InvalidParameterRejected ==
    (entry = "run_full_simulation" /\ InvalidParameter) =>
        /\ response = None
        /\ pc # "returned"

(* C17: called with a trial count of zero, run_full_simulation fails with  *)
(* no result, the failure being the ValueError or IndexError of the        *)
(* statistics of an empty array and, memory exhaustion apart, the only     *)
(* failure there is; called with a non-positive target and at least one    *)
(* trial it validates nothing and returns a result in which that target    *)
(* has hit probability 1.                                                  *)
ZeroTrialsRaiseNonPositiveTargetsPass ==
    entry = "run_full_simulation" =>
        /\ num_simulations = 0 => response = None /\ pc # "returned"
        /\ (pc = "raised" /\ raised # "MemoryError") =>
               /\ num_simulations = 0
               /\ raised \in {"ValueError", "IndexError"}
               /\ summary_stats = None
               /\ target_analysis = None
               /\ histogram = None
        /\ IsSome(response) =>
               LET ta == The(response).target_analysis IN
               /\ Len(ta) = Len(TargetsToUse)
               /\ \A k \in 1..Len(ta) :
                      ta[k].target <= 0 => ta[k].probability = 10000

ZeroTrialsRaiseNonPositiveTargetsPassWitness ==
    /\ Returned
    /\ revenue_targets = Some(<<0, 4 * CENT>>)
    /\ Len(filtered_opps) = 1
    /\ The(response).target_analysis[1].target = 0
    /\ The(response).target_analysis[1].probability = 10000
    /\ The(response).target_analysis[2].probability = 0

(* a quotient that is a number: its denominator is positive *)
Finite(q) == q.den > 0

(* C18: run_full_simulation either returns a complete result, with its     *)
(* statistics, one analysis per target, its histogram buckets and its      *)
(* metadata all present and every number finite, or fails with no result;  *)
(* nothing is returned before the last step or after a failure.            *)
CompleteResultOrNone ==
    entry = "run_full_simulation" =>
        /\ raised # "" => response = None /\ pc = "raised"
        /\ pc # "returned" => response = None
        /\ pc = "returned" => IsSome(response)
        /\ IsSome(response) =>
               LET r == The(response) IN
               /\ IsSome(summary_stats) /\ IsSome(target_analysis) /\ IsSome(histogram)
               /\ DOMAIN r = {"summary_statistics", "target_analysis",
                              "histogram_buckets", "metadata"}
               /\ r.summary_statistics = The(summary_stats)
               /\ r.target_analysis = The(target_analysis)
               /\ r.histogram_buckets = The(histogram)
               /\ Finite(r.summary_statistics.mean)
               /\ Finite(r.summary_statistics.median)
               /\ Finite(r.summary_statistics.std_dev)
               /\ Finite(r.summary_statistics.p10)
               /\ Finite(r.summary_statistics.p25)
               /\ Finite(r.summary_statistics.p75)
               /\ Finite(r.summary_statistics.p90)
               /\ Len(r.target_analysis) = Len(targets)
               /\ Len(r.target_analysis) > 0
               /\ Len(r.histogram_buckets) = DefaultBuckets
               /\ r.metadata.num_simulations = Len(The(outcomes))
               /\ r.metadata.num_simulations > 0
               /\ r.metadata.opportunities_included = Len(filtered_opps)
               /\ r.metadata.time_horizon_days = time_horizon_days

CompleteResultOrNoneWitness ==
    /\ entry = "run_full_simulation"
    /\ pc = "raised"
    /\ raised = "ValueError"
    /\ Len(opportunities) = 2
    /\ IsSome(outcomes)
    /\ The(outcomes) = <<>>
    /\ response = None

-----------------------------------------------------------------------------
(* Certain events, and the pipeline values.                                *)

(* C19: when every included event has win probability 1, every outcome of *)
(* run_full_simulation equals the total pipeline value, so the hit         *)
(* probability is 1 for every target up to that total and 0 for every     *)
(* target above it.                                                        *)
CertainEventsHitOrMiss ==
    (/\ entry = "run_full_simulation"
     /\ IsSome(target_analysis)
     /\ \A e \in Events : ProbabilityOf[e] = PScale) =>
        LET total == SetSum(AmountOf, Events)
            ta == The(target_analysis)
        IN  /\ \A t \in Trials : The(outcomes)[t] = total
            /\ \A k \in Records :
                   /\ ta[k].target <= total => ta[k].probability = 10000
                   /\ ta[k].target > total => ta[k].probability = 0

CertainEventsHitOrMissWitness ==
    /\ Returned
    /\ revenue_targets = None
    /\ Len(filtered_opps) = 1
    /\ filtered_opps[1].amount = 4 * CENT
    /\ filtered_opps[1].probability = PScale
    /\ num_simulations = MaxSims
    /\ The(target_analysis)[1].probability = 10000
    /\ The(target_analysis)[2].probability = 0

StatisticsOfEvents ==
    /\ entry \in {"compute_summary_statistics", "run_full_simulation"}
    /\ IsSome(summary_stats)

(* the sum of amount * probability over the included events, over PScale *)
WeightedSum == SetSum([e \in Events |-> AmountOf[e] * ProbabilityOf[e]], Events)

(* C20 as claimed: total_pipeline_value is the sum of the amounts and      *)
(* weighted_pipeline_value the sum of amount * probability over the        *)
(* included events, and the weighted value is at most the total.           *)
PipelineValuesExact ==
    StatisticsOfEvents =>
        LET s == The(summary_stats) IN
        /\ s.total_pipeline_value = SetSum(AmountOf, Events)
        /\ s.weighted_pipeline_value * PScale = WeightedSum
        /\ s.weighted_pipeline_value <= s.total_pipeline_value

(* C20: total_pipeline_value is the sum of the amounts of the included     *)
(* events, weighted_pipeline_value the sum of amount * probability over    *)
(* them rounded to the cent (so within half a cent of it), whatever the    *)
(* outcomes and the trial count, and the weighted value is at most the     *)
(* total.                                                                  *)
PipelineValuesRounded ==
    StatisticsOfEvents =>
        LET s == The(summary_stats) IN
        /\ s.total_pipeline_value = SetSum(AmountOf, Events)
        /\ s.weighted_pipeline_value % CENT = 0
        /\ 2 * Abs(s.weighted_pipeline_value * PScale - WeightedSum) <= CENT * PScale
        /\ s.weighted_pipeline_value <= s.total_pipeline_value

PipelineValuesRoundedWitness ==
    /\ Returned
    /\ Len(opportunities) = 2
    /\ Len(filtered_opps) = 1
    /\ filtered_opps[1].amount = 4 * CENT
    /\ 2 * filtered_opps[1].probability = PScale
    /\ The(response).summary_statistics.total_pipeline_value = 4 * CENT
    /\ The(response).summary_statistics.weighted_pipeline_value = 2 * CENT

-----------------------------------------------------------------------------
(* State that outlives an invocation of run_full_simulation.               *)

(* the values a call to np.random.uniform takes from the global generator *)
DrawsTaken == num_simulations * Len(filtered_opps)

-----------------------------------------------------------------------------
(* The simulate endpoint and the request models.                           *)

(* C23: when the engine runs out of memory the simulate endpoint answers   *)
(* 400, when it raises ValueError the endpoint answers 422, as it does for *)
(* a payload that fails validation; 400 is answered for nothing but        *)
(* MemoryError and 422 for nothing but a validation failure, and neither   *)
(* answer carries a result.                                                *)
ResourceExhaustionDistinct ==
    (entry = "simulate" /\ pc = "responded") =>
        /\ raised = "MemoryError" => status_code = 400
        /\ raised = "ValueError" => status_code = 422
        /\ constructed = None => status_code = 422
        /\ status_code = 400 => raised = "MemoryError"
        /\ status_code = 422 => raised = "ValueError" \/ constructed = None
        /\ status_code \in {400, 422} => response = None
        /\ status_code = 200 <=> IsSome(response)

ResourceExhaustionDistinctWitness ==
    /\ entry = "simulate"
    /\ pc = "responded"
    /\ raised = "MemoryError"
    /\ status_code = 400
    /\ num_simulations = MaxSims
    /\ Len(filtered_opps) = MaxOpps
    /\ IsSome(constructed)
    /\ response = None

(* the answer to how a construction ended *)
Rejected ==
    /\ pc = "raised"
    /\ raised = "ValidationError"
    /\ constructed = None

(* C24: constructing an Opportunity fails when its probability is outside  *)
(* [0, 1] or its amount is not positive or is above the cap, and succeeds  *)
(* otherwise; constructing a SimulationRequest fails when its opportunity  *)
(* list is empty, when one of its opportunities would fail, or when a      *)
(* supplied revenue target is not positive.                                *)
InvalidInputRejected ==
    /\ (entry = "Opportunity" /\ pc # "call") =>
           LET o == The(payload)
               bad == \/ o.probability < 0
                      \/ o.probability > PScale
                      \/ o.amount <= 0
                      \/ o.amount > amount_cap
           IN  /\ bad => Rejected
               /\ ~bad => pc = "returned" /\ IsSome(constructed)
    /\ (entry = "SimulationRequest" /\ pc # "call") =>
           LET r == The(payload)
               os == r.opportunities
               bad == \/ Len(os) = 0
                      \/ \E i \in 1..Len(os) :
                            \/ os[i].probability < 0
                            \/ os[i].probability > PScale
                            \/ os[i].amount <= 0
                            \/ os[i].amount > amount_cap
                      \/ /\ IsSome(r.revenue_targets)
                         /\ \E k \in 1..Len(The(r.revenue_targets)) :
                               The(r.revenue_targets)[k] <= 0
           IN  bad => Rejected

InvalidInputRejectedWitness ==
    /\ entry = "SimulationRequest"
    /\ Rejected
    /\ Len(The(payload).opportunities) = 1
    /\ The(payload).opportunities[1].amount = 2 * CENT
    /\ The(payload).opportunities[1].probability = PScale
    /\ The(payload).num_simulations = MinSims
    /\ The(payload).time_horizon_days = None
    /\ The(payload).revenue_targets = Some(<<4 * CENT, 0>>)

-----------------------------------------------------------------------------
(* Which bucket counts an outcome, and the frequency of a bucket.          *)

(* the range that is binned: [0, 1] for no outcomes, half a dollar either  *)
(* side of the value when all outcomes are equal, else [min, max]          *)
BinnedLow ==
    IF The(outcomes) = <<>> THEN 0
    ELSE IF MinOutcome = MaxOutcome THEN MinOutcome - DOLLAR \div 2
    ELSE MinOutcome

BinnedHigh ==
    IF The(outcomes) = <<>> THEN DOLLAR
    ELSE IF MinOutcome = MaxOutcome THEN MaxOutcome + DOLLAR \div 2
    ELSE MaxOutcome

(* x lies in bucket j of num_buckets (j from 1): low_j <= x < high_j, the  *)
(* last bucket taking x = high as well; the bounds are the bin edges       *)
(* BinnedLow + j * (BinnedHigh - BinnedLow) / num_buckets                  *)
InBucket(x, j) ==
    LET w == BinnedHigh - BinnedLow
        lowj == BinnedLow * num_buckets + (j - 1) * w
        highj == BinnedLow * num_buckets + j * w
    IN  /\ lowj <= x * num_buckets
        /\ \/ x * num_buckets < highj
           \/ j = num_buckets /\ x * num_buckets = highj

CountedIn(j) == Cardinality({t \in Trials : InBucket(The(outcomes)[t], j)})

EveryOutcomeInOneBucket ==
    /\ \A t \in Trials :
           Cardinality({j \in 1..num_buckets : InBucket(The(outcomes)[t], j)}) = 1
    /\ \A j \in 1..num_buckets : The(histogram)[j].count = CountedIn(j)

StatisticsMutuallyConsistent ==
    Returned =>
        LET st == The(response).summary_statistics IN
        /\ 0 <= st.min_outcome
        /\ st.min_outcome * st.p10.den <= st.p10.num
        /\ st.p90.num <= st.max_outcome * st.p90.den
        /\ st.min_outcome * st.mean.den <= st.mean.num
        /\ st.mean.num <= st.max_outcome * st.mean.den
        /\ st.max_outcome <= SetSum(AmountOf, Events)
        /\ st.max_outcome <= st.total_pipeline_value
        /\ \A t \in Trials :
               /\ st.min_outcome <= The(outcomes)[t]
               /\ The(outcomes)[t] <= st.max_outcome

StatisticsMutuallyConsistentWitness ==
    /\ Returned
    /\ Len(filtered_opps) = MaxOpps
    /\ num_simulations = MaxSims
    /\ The(response).summary_statistics.min_outcome = 0
    /\ The(response).summary_statistics.max_outcome
           = The(response).summary_statistics.total_pipeline_value
    /\ The(response).summary_statistics.max_outcome = 8 * CENT
    /\ The(response).summary_statistics.mean.num
           = 4 * CENT * The(response).summary_statistics.mean.den

====
